---- MODULE Spec2Model ----
(***************************************************************************)
(* A model of gmnx-viewer (src/js/gmnx-viewer.js) and of the page that     *)
(* drives it (src/unnamed/part_000): the note-value parser, tempo          *)
(* resolution, the scheduling of a Performance on the shared Transport,    *)
(* play/stop, and the promise plumbing of GmnxViewer.load / parse.         *)
(*                                                                         *)
(* Numbers of the program are JavaScript doubles.  The model keeps them as *)
(* exact fractions <<n, d>> (d > 0, lowest terms); every input set below   *)
(* holds values for which the program's arithmetic is exact or for which   *)
(* only equality of identically computed values is observed.               *)
(*                                                                         *)
(* Objects live in heaps: perfs (GmnxPerformance objects), decos           *)
(* (GmnxViewDecoration objects) and loads (one record per load() call);    *)
(* an object's identity is its index in its heap.                          *)
(***************************************************************************)
EXTENDS Integers, Sequences, FiniteSets, TLC

VARIABLES
    loads,          \* one record per GmnxViewer.load() call, see NewLoad
    performances,   \* viewer.performances: sequence of perf ids
    uiPerformances, \* viewModel.performances of the page: sequence of perf ids
    perfs,          \* heap of GmnxPerformance objects
    decos,          \* heap of GmnxViewDecoration objects
    transport,      \* the shared Tone.Transport
    ready,          \* viewModel.ready of the page: the play/stop buttons show
    synthLog,       \* synthesizer triggers since the Transport was last reset
    lastOp          \* history: the operation that produced this state

vars == <<loads, performances, uiPerformances, ready, perfs, decos, transport, synthLog,
          lastOp>>

(***************************************************************************)
(* Bounds of the model.                                                    *)
(***************************************************************************)
MaxLoads == 1      \* load() calls in one behaviour
MaxSounding == 2   \* buffer sources sounding at once when play() is pressed

(***************************************************************************)
(* Exact fractions.                                                        *)
(***************************************************************************)
RECURSIVE GCD(_, _)
GCD(a, b) == IF b = 0 THEN a ELSE GCD(b, a % b)

Abs(x) == IF x < 0 THEN -x ELSE x

\* the fraction n/d in lowest terms with a positive denominator (d # 0)
Reduced(n, d, g) == <<n \div g, d \div g>>

Frac(n, d) ==
    IF d < 0 THEN Reduced(-n, -d, GCD(Abs(n), Abs(d))) ELSE Reduced(n, d, GCD(Abs(n), Abs(d)))

Num(i) == <<i, 1>>
RMul(a, b) == Frac(a[1] * b[1], a[2] * b[2])
RDiv(a, b) == Frac(a[1] * b[2], a[2] * b[1])
RAdd(a, b) == Frac(a[1] * b[2] + b[1] * a[2], a[2] * b[2])
RSub(a, b) == Frac(a[1] * b[2] - b[1] * a[2], a[2] * b[2])
RLt(a, b) == a[1] * b[2] < b[1] * a[2]
RLe(a, b) == a[1] * b[2] <= b[1] * a[2]

\* JavaScript's undefined where an object is expected (a record, so that it
\* compares with the records standing for objects)
Undefined == [undefined |-> TRUE]

\* NaN / undefined where a number is expected
NoNumber == <<0, 0>>

(***************************************************************************)
(* Rational and MnxUtils.  A token is a sequence of one-character strings. *)
(***************************************************************************)
Digits == <<"0", "1", "2", "3", "4", "5", "6", "7", "8", "9">>

IsDigit(c) == \E i \in 1..10 : Digits[i] = c

DigitValue(c) == (CHOOSE i \in 1..10 : Digits[i] = c) - 1

\* Number.parseInt of a non-empty run of decimal digits
RECURSIVE ParseInt(_)
ParseInt(s) ==
    IF Len(s) = 0 THEN 0
    ELSE 10 * ParseInt(SubSeq(s, 1, Len(s) - 1)) + DigitValue(s[Len(s)])

\* length of the longest run of characters satisfying the class, from position i
RECURSIVE DigitRun(_, _)
DigitRun(s, i) ==
    IF i <= Len(s) /\ IsDigit(s[i]) THEN 1 + DigitRun(s, i + 1) ELSE 0

RECURSIVE DotRun(_, _)
DotRun(s, i) ==
    IF i <= Len(s) /\ s[i] = "d" THEN 1 + DotRun(s, i + 1) ELSE 0

\* str.match(/^(\d*)([\*\/])(\d+)([d]*)$/) with n1 leading digits, n3 digits
\* after the operator and n4 trailing d's: the four groups, or Undefined
MatchGroups(s, n1, n3, n4) ==
    IF /\ n1 + 1 <= Len(s)
       /\ s[n1 + 1] \in {"*", "/"}
       /\ n3 >= 1
       /\ n1 + 1 + n3 + n4 = Len(s)
    THEN [m1 |-> SubSeq(s, 1, n1),
          m2 |-> s[n1 + 1],
          m3 |-> SubSeq(s, n1 + 2, n1 + 1 + n3),
          m4 |-> n4]
    ELSE Undefined

MatchValue(s, n1, n3) == MatchGroups(s, n1, n3, DotRun(s, n1 + 2 + n3))

MatchOperator(s, n1) == MatchValue(s, n1, DigitRun(s, n1 + 2))

NoteValueMatch(s) == MatchOperator(s, DigitRun(s, 1))

RECURSIVE Pow2(_)
Pow2(k) == IF k = 0 THEN 1 ELSE 2 * Pow2(k - 1)

\* Math.log(number) / Math.log(2) has no fractional part, for the integers
\* 0 .. 2^31 - 1.  In IEEE double arithmetic the quotient of the two logarithms
\* is a whole number for 2^k, k in 0 .. 30, except for 2^29 (536870912), where
\* it is 29.000000000000004, and for no other integer of the range; log(0) is
\* -Infinity, and -Infinity - Math.floor(-Infinity) is NaN, which is not 0.
isPowerOf2(number) ==
    /\ number > 0
    /\ \E k \in 0..30 : k # 29 /\ number = Pow2(k)

\* new Rational(num, den)
Rational(num, den) == [numerator |-> num, denominator |-> den]

\* Rational.toNumber
toNumber(r) == Frac(r.numerator, r.denominator)

\* multiplier *= Math.pow(2, dots + 1) - 1, when there are dots
DottedMultiplier(multiplier, dots) ==
    IF dots > 0 THEN multiplier * (Pow2(dots + 1) - 1) ELSE multiplier

\* value /= Math.pow(2, dots), when there are dots
DottedValue(value, dots) ==
    IF dots > 0 THEN RDiv(value, Num(Pow2(dots))) ELSE value

\* (value < 1) ? new Rational(multiplier, 1 / value)
\*             : new Rational(multiplier * value, 1)
\* (value is a power of two here: 1 / value and multiplier * value are integers)
NoteValueRational(multiplier, value) ==
    IF RLt(value, Num(1))
    THEN Rational(multiplier, RDiv(Num(1), value)[1])
    ELSE Rational(multiplier * value[1], 1)

\* the body of MnxUtils.parseNoteValueQuantity from its power-of-two test on
NoteValueChecked(multiplier, fractional, value, dots) ==
    IF ~isPowerOf2(value) THEN Undefined
    ELSE NoteValueRational(
             DottedMultiplier(multiplier, dots),
             DottedValue(IF fractional THEN Frac(1, value) ELSE Num(value), dots))

\* the body of MnxUtils.parseNoteValueQuantity under its if (m)
NoteValueQuantity(m1, m2, m3, m4) ==
    NoteValueChecked(IF Len(m1) > 0 THEN ParseInt(m1) ELSE 1, m2 = "/", ParseInt(m3), m4)

\* MnxUtils.parseNoteValueQuantity from its if (m) on
NoteValueOfMatch(m) ==
    IF m = Undefined THEN Undefined
    ELSE NoteValueQuantity(m.m1, m.m2, m.m3, m.m4)

\* MnxUtils.parseNoteValueQuantity: a Rational, or Undefined
parseNoteValueQuantity(str) == NoteValueOfMatch(NoteValueMatch(str))

\* str.match(/^(-?\d+)\/(\d+)$/) with the sign taking sign characters (0 or 1)
\* and n1 digits before the slash: new Rational(Number.parseInt(m[1]),
\* Number.parseInt(m[2])), or Undefined
RationalOfMatch(s, sign, n1) ==
    IF /\ n1 >= 1
       /\ sign + n1 + 1 <= Len(s)
       /\ s[sign + n1 + 1] = "/"
       /\ DigitRun(s, sign + n1 + 2) >= 1
       /\ sign + n1 + 1 + DigitRun(s, sign + n1 + 2) = Len(s)
    THEN Rational((IF sign = 1 THEN -1 ELSE 1) * ParseInt(SubSeq(s, sign + 1, sign + n1)),
                  ParseInt(SubSeq(s, sign + n1 + 2, Len(s))))
    ELSE Undefined

RationalSigned(s, sign) == RationalOfMatch(s, sign, DigitRun(s, sign + 1))

\* MnxUtils.parseRational: a Rational, or Undefined
parseRational(str) ==
    RationalSigned(str, IF Len(str) >= 1 /\ str[1] = "-" THEN 1 ELSE 0)

(***************************************************************************)
(* The Transport (Tone.Transport, shared by every Performance).            *)
(* schedule is the timeline in registration order; a callback is           *)
(*   [time, perf, type, ev, targets]                                       *)
(* where perf is the Performance whose closure it is, ev the index of the  *)
(* event it plays (0 if none) and targets the decorations it acts on.      *)
(* done holds the timeline positions already fired at the instant seconds. *)
(***************************************************************************)
NewTransport == [state |-> "stopped", seconds |-> Num(0), schedule |-> <<>>, done |-> {}]

\* Tone.Transport.schedule(callback, time)
TransportSchedule(t, cb) == [t EXCEPT !.schedule = Append(@, cb)]

\* Tone.Transport.cancel(after): every event at or after the time is removed,
\* whichever Performance registered it
TransportCancel(t, after) ==
    LET keep(cb) == RLt(cb.time, after)
    IN  [t EXCEPT !.schedule = SelectSeq(@, keep), !.done = {}]

\* Tone.Transport.stop(): the clock halts and its position returns to zero
TransportStop(t) == [t EXCEPT !.state = "stopped", !.seconds = Num(0), !.done = {}]

\* Tone.Transport.seconds = 0; Tone.Transport.start(startTime + 0.1)
TransportRestart(t) == [t EXCEPT !.state = "starting", !.seconds = Num(0), !.done = {}]

(***************************************************************************)
(* Decorations (GmnxViewDecoration and its subclasses).                    *)
(***************************************************************************)
\* this.svg.getBBox(): the bounding box of the score element with the id
BBox(id) ==
    CASE id = "m1" -> [x |-> 10, y |-> 20, width |-> 40, height |-> 8]
      [] id = "m2" -> [x |-> 50, y |-> 20, width |-> 30, height |-> 8]
      [] OTHER -> [x |-> 12, y |-> 22, width |-> 3, height |-> 4]

\* the four attributes of a line element
Line(x1, y1, x2, y2) == [x1 |-> x1, y1 |-> y1, x2 |-> x2, y2 |-> y2]

\* GmnxViewCursor.cursorFromEdge for the four named edges; any other string
\* is split and parsed as numbers, which for a string that holds none gives NaN
cursorFromEdge(rect, str) ==
    CASE str = "left" ->
           Line(Num(rect.x), Num(rect.y), Num(rect.x), Num(rect.y + rect.height))
      [] str = "right" ->
           Line(Num(rect.x + rect.width), Num(rect.y),
                Num(rect.x + rect.width), Num(rect.y + rect.height))
      [] str = "top" ->
           Line(Num(rect.x), Num(rect.y), Num(rect.x + rect.width), Num(rect.y))
      [] str = "bottom" ->
           Line(Num(rect.x), Num(rect.y + rect.height),
                Num(rect.x + rect.width), Num(rect.y + rect.height))
      [] OTHER -> Line(NoNumber, NoNumber, NoNumber, NoNumber)

\* new GmnxViewRegion / GmnxViewGraphic / GmnxViewCursor(performance, region);
\* loops counts the setInterval loops of the object that have not been cleared
\* (instrumentation: the program keeps only the handle of the latest)
NewDecoration(kind, p, region) ==
    [kind |-> kind,                 \* "region", "graphic" or "cursor"
     performance |-> p,
     elementId |-> region.region,
     rect |-> BBox(region.region),
     start |-> region.start,
     end |-> region.end,
     cursorStart |-> IF kind = "cursor"
                     THEN cursorFromEdge(BBox(region.region), region.cursorStart)
                     ELSE Undefined,
     cursorEnd |-> IF kind = "cursor"
                   THEN cursorFromEdge(BBox(region.region), region.cursorEnd)
                   ELSE Undefined,
     highlighted |-> FALSE,
     created |-> FALSE,             \* highlightSvg$ exists
     attached |-> FALSE,            \* highlightSvg$ is in the DOM
     line |-> Undefined,            \* x1, y1, x2, y2 of highlightSvg$, once set
     interval |-> FALSE,            \* this.interval holds a handle
     loops |-> 0]

\* faulty variant: hide() that clears the flag and leaves the element in place
DecorationHideFlagOnly(d) == [d EXCEPT !.highlighted = FALSE]

\* GmnxViewDecoration.show
DecorationShow(d) ==
    [d EXCEPT !.created = TRUE,
              !.attached = IF d.highlighted THEN @ ELSE TRUE,
              !.highlighted = TRUE]

\* GmnxViewDecoration.hide
DecorationHide(d) ==
    IF d.highlighted
    THEN [d EXCEPT !.attached = FALSE, !.highlighted = FALSE]
    ELSE d

\* faulty variant: show() that starts a polling loop on every call
CursorShowAlwaysPolls(d) ==
    [DecorationShow(d) EXCEPT !.line = Line(Num(0), Num(0), Num(0), Num(0)),
                              !.interval = TRUE,
                              !.loops = @ + 1]

\* GmnxViewCursor.show
CursorShow(d) ==
    [DecorationShow(d) EXCEPT !.line = Line(Num(0), Num(0), Num(0), Num(0)),
                              !.interval = TRUE,
                              !.loops = IF d.interval THEN @ ELSE @ + 1]

\* GmnxViewCursor.hide
CursorHide(d) ==
    [DecorationHide(d) EXCEPT !.interval = FALSE,
                              !.loops = IF d.interval THEN @ - 1 ELSE @]

\* faulty variant: p held within [0, 1]
ProgressClamped(time, start, end) ==
    IF start = end THEN NoNumber
    ELSE IF RLt(RDiv(RSub(time, start), RSub(end, start)), Num(0)) THEN Num(0)
    ELSE IF RLt(Num(1), RDiv(RSub(time, start), RSub(end, start))) THEN Num(1)
    ELSE RDiv(RSub(time, start), RSub(end, start))

\* p = (time - this.start) / (this.end - this.start); not a finite number when
\* end = start
Progress(time, start, end) ==
    IF start = end THEN NoNumber ELSE RDiv(RSub(time, start), RSub(end, start))

\* this.cursorStart[lineProp] + p * (this.cursorEnd[lineProp] - this.cursorStart[lineProp])
Interpolate(a, b, p) ==
    IF p = NoNumber \/ a = NoNumber \/ b = NoNumber THEN NoNumber
    ELSE RAdd(a, RMul(p, RSub(b, a)))

\* the for (let lineProp of ['x1', 'x2', 'y1', 'y2']) of the polling callback
InterpolateLine(cs, ce, p) ==
    Line(Interpolate(cs.x1, ce.x1, p), Interpolate(cs.y1, ce.y1, p),
         Interpolate(cs.x2, ce.x2, p), Interpolate(cs.y2, ce.y2, p))

\* the setInterval callback of GmnxViewCursor.show, with the values it reads
\* from Tone.Transport.seconds and this.performance.timescale
CursorTick(d, seconds, timescale) ==
    IF d.highlighted
    THEN [d EXCEPT !.line = InterpolateLine(d.cursorStart, d.cursorEnd,
                                Progress(RDiv(seconds, timescale), d.start, d.end))]
    ELSE d

\* vr.show() / vr.hide() by dynamic dispatch
Show(d) == IF d.kind = "cursor" THEN CursorShow(d) ELSE DecorationShow(d)

Hide(d) == IF d.kind = "cursor" THEN CursorHide(d) ELSE DecorationHide(d)

(***************************************************************************)
(* Performances.  The operations of a Performance act on a world           *)
(*   w = [perfs, decos, transport]                                         *)
(* and return the world they leave.                                        *)
(***************************************************************************)
World(ps, ds, t) == [perfs |-> ps, decos |-> ds, transport |-> t]

\* new GmnxPerformanceData(viewer) / new GmnxPerformanceAudio(viewer);
\* passes counts the scheduling passes the object has run, and sourceLive and
\* orphans tell which Tone.BufferSources the object started are sounding: the
\* one this.source refers to, and how many it no longer refers to;
\* latest tells that this.startTime is the latest of all Performances (the
\* Performance was the last one played) and sourceFresh that this.source was
\* started since the last play() of any Performance (instrumentation)
NewPerformance(kind, l) ==
    [kind |-> kind,                 \* "data" or "audio"
     load |-> l,                    \* the load() call whose parse created it
     tempos |-> <<>>,
     regions |-> <<>>,
     events |-> <<>>,
     activeRegions |-> {},
     timescale |-> NoNumber,
     scheduled |-> FALSE,
     synth |-> FALSE,               \* this.synth exists
     source |-> FALSE,              \* this.source is a BufferSource
     sourceLive |-> FALSE,
     orphans |-> 0,
     latest |-> FALSE,
     sourceFresh |-> FALSE,
     passes |-> 0]

\* GmnxPerformance.addTempo
addTempo(perf, start, unitSeconds) ==
    [perf EXCEPT !.tempos = Append(@, [start |-> start, unitSeconds |-> unitSeconds])]

\* GmnxPerformance.addRegion / GmnxPerformanceAudio.addRegion
addRegion(perf, start, end, view, region, cursorStart, cursorEnd) ==
    [perf EXCEPT !.regions = Append(@, [start |-> start, end |-> end, view |-> view,
                                        region |-> region, cursorStart |-> cursorStart,
                                        cursorEnd |-> cursorEnd])]

\* GmnxPerformanceData.addEvent
addEvent(perf, start, frequency, duration, dynamics, view, graphics) ==
    [perf EXCEPT !.events = Append(@, [start |-> start, frequency |-> frequency,
                                       duration |-> duration, dynamics |-> dynamics,
                                       view |-> view, graphics |-> graphics,
                                       viewGraphics |-> <<>>])]

\* Array.prototype.sort((a, b) => a.start - b.start): a stable sort by start
RECURSIVE InsertByStart(_, _)
InsertByStart(sorted, x) ==
    IF sorted = <<>> THEN <<x>>
    ELSE IF RLt(x.start, sorted[Len(sorted)].start)
         THEN Append(InsertByStart(SubSeq(sorted, 1, Len(sorted) - 1), x), sorted[Len(sorted)])
         ELSE Append(sorted, x)

\* faulty variant: the tempo and event lists are left in declaration order
LeaveUnsorted(s) == s

RECURSIVE SortByStart(_)
SortByStart(s) ==
    IF s = <<>> THEN <<>>
    ELSE InsertByStart(SortByStart(SubSeq(s, 1, Len(s) - 1)), s[Len(s)])

\* the callbacks a Performance hands to Tone.Transport.schedule
Callback(time, p, type, ev, targets) ==
    [time |-> time, perf |-> p, type |-> type, ev |-> ev, targets |-> targets]

\* GmnxPerformance.scheduleRegions, regions k .. Len(regions)
RECURSIVE scheduleRegionsFrom(_, _, _)
scheduleRegionsFrom(w, p, k) ==
    IF k > Len(w.perfs[p].regions) THEN w
    ELSE
      LET pr == w.perfs[p].regions[k]
          kind == IF pr.cursorStart # "" /\ pr.cursorEnd # "" THEN "cursor" ELSE "region"
          vr == Len(w.decos) + 1
          ts == w.perfs[p].timescale
      IN  scheduleRegionsFrom(
              World(w.perfs,
                    Append(w.decos, NewDecoration(kind, p, pr)),
                    TransportSchedule(
                        TransportSchedule(w.transport,
                            Callback(RMul(pr.start, ts), p, "showRegion", 0, <<vr>>)),
                        Callback(RMul(pr.end, ts), p, "hideRegion", 0, <<vr>>))),
              p, k + 1)

scheduleRegions(w, p) == scheduleRegionsFrom(w, p, 1)

\* the pe.graphics.forEach of GmnxPerformanceData.schedulePerformance: one
\* GmnxViewGraphic per element id, appended to the heap
RECURSIVE NewGraphics(_, _, _, _)
NewGraphics(ds, p, pe, k) ==
    IF k > Len(pe.graphics) THEN ds
    ELSE NewGraphics(
             Append(ds, NewDecoration("graphic", p,
                        [start |-> pe.start, end |-> RAdd(pe.start, pe.duration),
                         region |-> pe.graphics[k]])),
             p, pe, k + 1)

\* The Transport.schedule calls for event k of p: the trigger, and with view
\* graphics the show and the hide
ScheduleEvent(t, p, k, pe, ts, viewGraphics) ==
    IF viewGraphics = <<>>
    THEN TransportSchedule(t, Callback(RMul(pe.start, ts), p, "trigger", k, <<>>))
    ELSE TransportSchedule(
             TransportSchedule(
                 TransportSchedule(t, Callback(RMul(pe.start, ts), p, "trigger", k, <<>>)),
                 Callback(RMul(pe.start, ts), p, "showGraphics", k, viewGraphics)),
             Callback(RMul(RAdd(pe.start, pe.duration), ts), p, "hideGraphics", k,
                      viewGraphics))

\* the ids of the decorations that extend the heap old to the heap ds
NewIds(old, ds) == [i \in 1..(Len(ds) - Len(old)) |-> Len(old) + i]

\* the forEach body of GmnxPerformanceData.schedulePerformance for event k,
\* given the heap ds that holds its new GmnxViewGraphics
ScheduleEventWith(w, p, k, ds) ==
    World([w.perfs EXCEPT ![p].events[k].viewGraphics = NewIds(w.decos, ds)],
          ds,
          ScheduleEvent(w.transport, p, k, w.perfs[p].events[k], w.perfs[p].timescale,
                        NewIds(w.decos, ds)))

\* GmnxPerformanceData.schedulePerformance, events k .. Len(events) of the
\* sorted list
RECURSIVE scheduleEventsFrom(_, _, _)
scheduleEventsFrom(w, p, k) ==
    IF k > Len(w.perfs[p].events) THEN w
    ELSE scheduleEventsFrom(
             ScheduleEventWith(w, p, k,
                 IF w.perfs[p].events[k].view /\ w.perfs[p].events[k].graphics # <<>>
                 THEN NewGraphics(w.decos, p, w.perfs[p].events[k], 1)
                 ELSE w.decos),
             p, k + 1)

\* GmnxPerformanceData.schedulePerformance / GmnxPerformanceAudio.schedulePerformance
schedulePerformance(w, p) ==
    IF w.perfs[p].kind = "data"
    THEN scheduleEventsFrom(
             World([w.perfs EXCEPT ![p].events = SortByStart(@), ![p].synth = TRUE],
                   w.decos, w.transport), p, 1)
    ELSE World(w.perfs, w.decos,
               TransportSchedule(w.transport, Callback(Num(0), p, "audioStart", 0, <<>>)))

\* if (this.tempos.length == 0) this.addTempo(0, 1);
\* this.timescale = this.tempos[0].unitSeconds
TakeFirstTempo(perf) ==
    IF Len(perf.tempos) = 0
    THEN [addTempo(perf, Num(0), Num(1)) EXCEPT !.timescale = Num(1), !.passes = @ + 1]
    ELSE [perf EXCEPT !.timescale = perf.tempos[1].unitSeconds, !.passes = @ + 1]

\* the tempo resolution of GmnxPerformance.prepare
ResolveTempo(perf) == TakeFirstTempo([perf EXCEPT !.tempos = SortByStart(@)])

\* this.scheduled = true
MarkScheduled(w, p) == World([w.perfs EXCEPT ![p].scheduled = TRUE], w.decos, w.transport)

\* the body of GmnxPerformance.prepare under its if (!this.scheduled)
preparePass(w, p) ==
    MarkScheduled(
        scheduleRegions(
            schedulePerformance(
                World([w.perfs EXCEPT ![p] = ResolveTempo(@)], w.decos,
                      TransportCancel(w.transport, Num(0))),
                p),
            p),
        p)

\* faulty variant: prepare() without its scheduled guard
prepareUnguarded(w, p) == preparePass(w, p)

\* GmnxPerformance.prepare
prepare(w, p) == IF w.perfs[p].scheduled THEN w ELSE preparePass(w, p)

\* the activeRegions.forEach(vr => vr.hide()) of GmnxPerformance.stop
HideAll(ds, active) ==
    [d \in DOMAIN ds |-> IF d \in active THEN Hide(ds[d]) ELSE ds[d]]

\* faulty variant: stop() that halts the Transport and forgets the decorations
stopTransportOnly(w, p) == World(w.perfs, w.decos, TransportStop(w.transport))

\* faulty variant: stop() that also marks the Performance as not scheduled
stopUnschedules(w, p) ==
    World([w.perfs EXCEPT ![p].activeRegions = {}, ![p].source = FALSE,
                          ![p].sourceLive = FALSE, ![p].scheduled = FALSE],
          HideAll(w.decos, w.perfs[p].activeRegions),
          TransportStop(w.transport))

\* GmnxPerformance.stop, then the subclass's part: synth.releaseAll() for a
\* DataPerformance; source.stop(), source = null for an AudioPerformance
stop(w, p) ==
    World([w.perfs EXCEPT ![p].activeRegions = {}, ![p].source = FALSE,
                          ![p].sourceLive = FALSE],
          HideAll(w.decos, w.perfs[p].activeRegions),
          TransportStop(w.transport))

\* faulty variant: play() without its leading stop()
playWithoutStop(w, p) == [w EXCEPT !.transport = TransportRestart(@)]

\* GmnxPerformance.play
Restart(w) == World(w.perfs, w.decos, TransportRestart(w.transport))

\* this.startTime = Tone.Transport.context.currentTime: p is now the
\* Performance played last, and a new play-through begins
StartTimeTaken(w, p) ==
    World([q \in DOMAIN w.perfs |->
              [w.perfs[q] EXCEPT !.latest = (q = p), !.sourceFresh = FALSE]],
          w.decos, w.transport)

play(w, p) == Restart(StartTimeTaken(stop(w, p), p))

(***************************************************************************)
(* GmnxViewer.parse.  A file is the content of a GMNX document after       *)
(* attribute extraction:                                                   *)
(*   [views |-> sequence of BOOLEAN (TRUE: the score-view names an         *)
(*              external SVG that must be fetched, FALSE: inline SVG),     *)
(*    perfs |-> sequence of performance declarations in document order]    *)
(* and a performance declaration is                                        *)
(*   [kind, tempos, regions, events]                                       *)
(* with the attribute values of its performance-tempo, performance-region  *)
(* and performance-event children.                                         *)
(***************************************************************************)
\* faulty variant: the seconds of one beat, not of one whole note
SecondsPerBeat(bpm, beat) == Frac(60, bpm)

\* (60 / bpm) / beat.toNumber() of GmnxViewer.parseTempos
UnitSeconds(bpm, beat) == RDiv(Frac(60, bpm), toNumber(beat))

\* performance.addTempo(start, (60 / bpm) / beat.toNumber()) for declaration pt
\* whose beat parsed
AddParsedTempo(perf, pt, beat) ==
    addTempo(perf, IF pt.start = NoNumber THEN Num(0) ELSE pt.start, UnitSeconds(pt.bpm, beat))

\* the each() of GmnxViewer.parseTempos from declaration k on: the Performance
\* it leaves, and whether beat.toNumber() threw on an undefined beat
RECURSIVE parseTemposFrom(_, _, _)
TempoParsed(perf, decls, k, beat) ==
    IF beat = Undefined THEN [perf |-> perf, threw |-> TRUE]
    ELSE parseTemposFrom(AddParsedTempo(perf, decls[k], beat), decls, k + 1)

parseTemposFrom(perf, decls, k) ==
    IF k > Len(decls) THEN [perf |-> perf, threw |-> FALSE]
    ELSE TempoParsed(perf, decls, k, parseNoteValueQuantity(decls[k].beat))

parseTempos(perf, decls) == parseTemposFrom(perf, decls, 1)

\* GmnxViewer.parseRegions
RECURSIVE parseRegionsFrom(_, _, _)
parseRegionsFrom(perf, decls, k) ==
    IF k > Len(decls) THEN perf
    ELSE LET pr == decls[k]
         IN  parseRegionsFrom(
                 addRegion(perf, pr.start, pr.end, pr.view, pr.region,
                           pr.cursorStart, pr.cursorEnd),
                 decls, k + 1)

parseRegions(perf, decls) == parseRegionsFrom(perf, decls, 1)

\* the performance-event loop of GmnxViewer.parse
RECURSIVE parseEventsFrom(_, _, _)
parseEventsFrom(perf, decls, k) ==
    IF k > Len(decls) THEN perf
    ELSE LET pe == decls[k]
         IN  parseEventsFrom(
                 addEvent(perf, pe.start, pe.pitch, pe.duration, pe.dynamics,
                          pe.view, pe.graphics),
                 decls, k + 1)

\* gmnx.find('performance-data') is walked before gmnx.find('performance-audio')
IsData(decl) == decl.kind = "data"

IsAudio(decl) == decl.kind = "audio"

ParseOrder(file) == SelectSeq(file.perfs, IsData) \o SelectSeq(file.perfs, IsAudio)

\* the two scoreData / scoreAudio loops of GmnxViewer.parse over the
\* declarations k .. Len(decls): st = [perfs, performances, media, threw]
RECURSIVE parsePerformancesFrom(_, _, _, _)
\* the loop body once parseTempos has returned r = [perf, threw]
PerformanceParsed(st, decls, k, l, r) ==
    parsePerformancesFrom(
        [perfs |-> Append(st.perfs,
                     IF r.threw THEN r.perf
                     ELSE parseEventsFrom(parseRegions(r.perf, decls[k].regions),
                                          decls[k].events, 1)),
         performances |-> Append(st.performances, Len(st.perfs) + 1),
         media |-> IF ~r.threw /\ decls[k].kind = "audio" THEN st.media + 1 ELSE st.media,
         threw |-> r.threw],
        decls, k + 1, l)

parsePerformancesFrom(st, decls, k, l) ==
    IF k > Len(decls) \/ st.threw THEN st
    ELSE PerformanceParsed(st, decls, k, l,
             parseTempos(NewPerformance(decls[k].kind, l), decls[k].tempos))

SeqCount(s, x) == Cardinality({i \in DOMAIN s : s[i] = x})

\* what GmnxViewer.parse leaves when its loops end in st
Parsed(file, st) ==
    [perfs |-> st.perfs,
     performances |-> st.performances,
     promises |-> [i \in 1..(SeqCount(file.views, TRUE) + st.media) |-> "pending"],
     threw |-> st.threw]

\* GmnxViewer.parse up to the Promise.all: the heap and this.performances it
\* leaves, the asset promises it collected (one per external view, then one
\* per audio medium), and whether it threw
parse(ps, file, l) ==
    Parsed(file,
           parsePerformancesFrom(
               [perfs |-> ps, performances |-> <<>>, media |-> 0, threw |-> FALSE],
               ParseOrder(file), 1, l))

\* this.performances.forEach(perf => perf.prepare())
RECURSIVE prepareAllFrom(_, _, _)
prepareAllFrom(w, list, k) ==
    IF k > Len(list) THEN w
    ELSE prepareAllFrom(prepare(w, list[k]), list, k + 1)

prepareAll(w, list) == prepareAllFrom(w, list, 1)

\* a load() call: the state of its XML request, of the promises parse()
\* collected, of Promise.all(promises) and of the promise load() returned
NewLoad(file) ==
    [file |-> file,
     xhr |-> "pending",             \* "pending", "success" or "error"
     threw |-> FALSE,               \* parse() threw inside the success callback
     created |-> <<>>,              \* the Performances its parse() built
     promises |-> <<>>,
     bigPromise |-> "none",         \* "none", "pending", "resolved" or "rejected"
     promise |-> "pending"]         \* "pending", "resolved" or "rejected"

(***************************************************************************)
(* Fired Transport callbacks.                                              *)
(***************************************************************************)
Range(s) == {s[i] : i \in DOMAIN s}

\* g.show() / g.hide() for each decoration of a list
ShowEach(ds, targets) ==
    [d \in DOMAIN ds |-> IF d \in Range(targets) THEN Show(ds[d]) ELSE ds[d]]

\* faulty variant: a hide callback that leaves the decorations shown
HideEachLeaves(ds, targets) == ds

HideEach(ds, targets) ==
    [d \in DOMAIN ds |-> IF d \in Range(targets) THEN Hide(ds[d]) ELSE ds[d]]

\* the body of a scheduled callback, run on the world
RunCallback(w, cb) ==
    LET p == cb.perf
        graphics == IF cb.ev > 0 THEN w.perfs[p].events[cb.ev].viewGraphics ELSE <<>>
    IN  CASE cb.type = "showRegion" ->
               World([w.perfs EXCEPT ![p].activeRegions = @ \cup Range(cb.targets)],
                     ShowEach(w.decos, cb.targets), w.transport)
          [] cb.type = "hideRegion" ->
               World([w.perfs EXCEPT ![p].activeRegions = @ \ Range(cb.targets)],
                     HideEach(w.decos, cb.targets), w.transport)
          [] cb.type = "showGraphics" ->
               World([w.perfs EXCEPT ![p].activeRegions = @ \cup Range(graphics)],
                     ShowEach(w.decos, graphics), w.transport)
          [] cb.type = "hideGraphics" ->
               World([w.perfs EXCEPT ![p].activeRegions = @ \ Range(graphics)],
                     HideEach(w.decos, graphics), w.transport)
          [] cb.type = "audioStart" ->
               World([w.perfs EXCEPT ![p].source = TRUE,
                                     ![p].sourceLive = TRUE,
                                     ![p].sourceFresh = TRUE,
                                     ![p].orphans = IF w.perfs[p].sourceLive
                                                    THEN @ + 1 ELSE @],
                     w.decos, w.transport)
          [] OTHER -> w

\* this.synth.triggerAttackRelease(pe.frequency, pe.duration * this.timescale,
\*                                 time, pe.dynamics / 127)
Trigger(w, cb) ==
    LET pe == w.perfs[cb.perf].events[cb.ev]
    IN  [perf |-> cb.perf, ev |-> cb.ev, time |-> cb.time,
         frequency |-> pe.frequency,
         duration |-> RMul(pe.duration, w.perfs[cb.perf].timescale),
         velocity |-> Frac(pe.dynamics, 127)]

\* the callbacks the running Transport may fire next: those of the earliest
\* time not yet passed (callbacks of one time fire in no guaranteed order)
Pending(t) ==
    {i \in DOMAIN t.schedule :
        /\ RLe(t.seconds, t.schedule[i].time)
        /\ ~(t.schedule[i].time = t.seconds /\ i \in t.done)}

Due(t) ==
    {i \in Pending(t) : \A j \in Pending(t) : RLe(t.schedule[i].time, t.schedule[j].time)}

(***************************************************************************)
(* The actions.                                                            *)
(***************************************************************************)
\* lastOp: the operation, the Performance it was called on (or whose callback
\* fired) and that Performance's active set before the operation
Op(op, p) ==
    [op |-> op, perf |-> p,
     was |-> IF p \in DOMAIN perfs THEN perfs[p].activeRegions ELSE {}]

TheWorld == World(perfs, decos, transport)

SetWorld(w) ==
    /\ perfs' = w.perfs
    /\ decos' = w.decos
    /\ transport' = w.transport

\* the load has nothing more to run: its promise is settled, or parse threw
Quiet(l) == loads[l].promise # "pending" \/ loads[l].threw

\* loadFile(src) of the page: viewModel.ready(false); viewer.load(src)
Load(file) ==
    /\ Len(loads) < MaxLoads
    /\ \A l \in DOMAIN loads : Quiet(l)
    /\ loads' = Append(loads, NewLoad(file))
    /\ ready' = FALSE
    /\ lastOp' = Op("load", 0)
    /\ UNCHANGED <<performances, uiPerformances, perfs, decos, transport, synthLog>>

\* the error callback of $.get in GmnxViewer.load
XhrError(l) ==
    /\ loads[l].xhr = "pending"
    /\ loads' = [loads EXCEPT ![l].xhr = "error", ![l].promise = "rejected"]
    /\ lastOp' = Op("xhrError", 0)
    /\ UNCHANGED <<performances, uiPerformances, ready, perfs, decos, transport, synthLog>>

\* the reaction to Promise.all(promises) resolving, with the reactions that
\* follow it in the same microtask checkpoint: parse's then() prepares
\* this.performances, load's then() resolves the promise it returned, and the
\* page's then() (loadFile) shows this.performances
Resolved(l, ld, ps, list) ==
    /\ SetWorld(prepareAll(World(ps, decos, transport), list))
    /\ loads' = [loads EXCEPT ![l] = [ld EXCEPT !.bigPromise = "resolved",
                                                 !.promise = "resolved"]]
    /\ uiPerformances' = list
    /\ ready' = TRUE

\* the load record once parse() has run with outcome r
LoadParsed(ld, r) ==
    [ld EXCEPT !.xhr = "success", !.created = r.performances, !.promises = r.promises,
               !.threw = r.threw,
               !.bigPromise = IF r.threw THEN "none" ELSE "pending"]

\* the success callback, with r what parse() left
XhrSuccessWith(l, r) ==
    /\ performances' = r.performances
    /\ IF ~r.threw /\ Len(r.promises) = 0
       THEN Resolved(l, LoadParsed(loads[l], r), r.perfs, r.performances)
       ELSE /\ loads' = [loads EXCEPT ![l] = LoadParsed(@, r)]
            /\ perfs' = r.perfs
            /\ UNCHANGED <<uiPerformances, ready, decos, transport>>

\* the success callback of $.get in GmnxViewer.load: this.parse(data).then(...)
XhrSuccess(l) ==
    /\ loads[l].xhr = "pending"
    /\ XhrSuccessWith(l, parse(perfs, loads[l].file, l))
    /\ lastOp' = Op("xhrSuccess", 0)
    /\ UNCHANGED synthLog

\* faulty variant: the aggregate resolves with the first asset that resolves
AnyResolved(ld) == \E j \in DOMAIN ld.promises : ld.promises[j] = "resolved"

\* Promise.all(promises) resolves when every promise it was given has resolved
AllResolved(ld) == \A j \in DOMAIN ld.promises : ld.promises[j] = "resolved"

\* an asset promise (a view's $.get, or the Tone.Buffer of addMedia) resolves
AssetResolve(l, i) ==
    /\ i \in DOMAIN loads[l].promises
    /\ loads[l].promises[i] = "pending"
    /\ LET ld == [loads[l] EXCEPT !.promises[i] = "resolved"]
       IN  IF ld.bigPromise = "pending" /\ AllResolved(ld)
           THEN Resolved(l, ld, perfs, performances)
           ELSE /\ loads' = [loads EXCEPT ![l] = ld]
                /\ UNCHANGED <<uiPerformances, ready, perfs, decos, transport>>
    /\ lastOp' = Op("assetResolve", 0)
    /\ UNCHANGED <<performances, synthLog>>

\* an asset promise rejects: Promise.all rejects, and load's then() rejects
\* the promise it returned
AssetReject(l, i) ==
    /\ i \in DOMAIN loads[l].promises
    /\ loads[l].promises[i] = "pending"
    /\ LET ld == [loads[l] EXCEPT !.promises[i] = "rejected"]
       IN  loads' = [loads EXCEPT ![l] =
                        IF ld.bigPromise = "pending"
                        THEN [ld EXCEPT !.bigPromise = "rejected", !.promise = "rejected"]
                        ELSE ld]
    /\ lastOp' = Op("assetReject", 0)
    /\ UNCHANGED <<performances, uiPerformances, ready, perfs, decos, transport, synthLog>>

\* the Performances the page offers to play and stop
Offered == IF ready THEN Range(uiPerformances) ELSE {}

\* perf.prepare() called again on a Performance the page holds
PrepareCall(p) ==
    /\ p \in Offered
    /\ SetWorld(prepare(TheWorld, p))
    /\ lastOp' = Op("prepare", p)
    /\ UNCHANGED <<loads, performances, uiPerformances, ready, synthLog>>

\* the buffer sources sounding, started by whichever Performance
RECURSIVE SoundingFrom(_, _)
SoundingFrom(ps, k) ==
    IF k > Len(ps) THEN 0
    ELSE (IF ps[k].sourceLive THEN 1 ELSE 0) + ps[k].orphans + SoundingFrom(ps, k + 1)

\* PerformanceModel.play
Play(p) ==
    /\ p \in Offered
    /\ SoundingFrom(perfs, 1) < MaxSounding
    /\ SetWorld(play(TheWorld, p))
    /\ synthLog' = <<>>
    /\ lastOp' = Op("play", p)
    /\ UNCHANGED <<loads, performances, uiPerformances, ready>>

\* PerformanceModel.stop
Stop(p) ==
    /\ p \in Offered
    /\ SetWorld(stop(TheWorld, p))
    /\ lastOp' = Op("stop", p)
    /\ UNCHANGED <<loads, performances, uiPerformances, ready, synthLog>>

\* the lead-in of Tone.Transport.start(startTime + 0.1) has passed
TransportStarts ==
    /\ transport.state = "starting"
    /\ transport' = [transport EXCEPT !.state = "started"]
    /\ lastOp' = Op("started", 0)
    /\ UNCHANGED <<loads, performances, uiPerformances, ready, perfs, decos, synthLog>>

\* the running Transport reaches the time of callback i and fires it
Fire(i) ==
    /\ transport.state = "started"
    /\ i \in Due(transport)
    /\ LET cb == transport.schedule[i]
           t == [transport EXCEPT
                    !.done = IF cb.time = transport.seconds THEN @ \cup {i} ELSE {i},
                    !.seconds = cb.time]
       IN  /\ SetWorld(RunCallback(World(perfs, decos, t), cb))
           /\ synthLog' = IF cb.type = "trigger"
                          THEN Append(synthLog, Trigger(TheWorld, cb))
                          ELSE synthLog
           /\ lastOp' = Op("fire", cb.perf)
    /\ UNCHANGED <<loads, performances, uiPerformances, ready>>

\* a Tone.BufferSource of Performance p reaches the end of its buffer: the one
\* this.source refers to, or one it no longer refers to
SourceEnds(p) ==
    /\ \/ /\ perfs[p].sourceLive
          /\ perfs' = [perfs EXCEPT ![p].sourceLive = FALSE]
       \/ /\ perfs[p].orphans > 0
          /\ perfs' = [perfs EXCEPT ![p].orphans = @ - 1]
    /\ lastOp' = Op("sourceEnds", p)
    /\ UNCHANGED <<loads, performances, uiPerformances, ready, decos, transport, synthLog>>

\* a polling loop of decoration d wakes up
Tick(d) ==
    /\ decos[d].loops > 0
    /\ decos' = [decos EXCEPT ![d] = CursorTick(@, transport.seconds,
                                                perfs[@.performance].timescale)]
    /\ lastOp' = [op |-> "tick", perf |-> decos[d].performance,
                  was |-> perfs[decos[d].performance].activeRegions,
                  targets |-> {d}, before |-> decos]
    /\ UNCHANGED <<loads, performances, uiPerformances, ready, perfs, transport, synthLog>>

(***************************************************************************)
(* Inputs: the documents the page loads.                                   *)
(***************************************************************************)
Quarter == <<"/", "4">>
Half == <<"/", "2">>
DottedQuarter == <<"/", "4", "d">>
Sixth == <<"/", "6">>              \* base value not a power of two
NoOperator == <<"4">>              \* does not match the token pattern

Tempo(start, bpm, beat) == [start |-> start, bpm |-> bpm, beat |-> beat]

RegionDecl(start, end, id, cursorStart, cursorEnd) ==
    [start |-> Num(start), end |-> Num(end), view |-> TRUE, region |-> id,
     cursorStart |-> cursorStart, cursorEnd |-> cursorEnd]

EventDecl(start, pitch, duration, dynamics, graphics) ==
    [start |-> Num(start), pitch |-> pitch, duration |-> Num(duration),
     dynamics |-> dynamics, view |-> TRUE, graphics |-> graphics]

PerfDecl(kind, tempos, regions, events) ==
    [kind |-> kind, tempos |-> tempos, regions |-> regions, events |-> events]

\* a data performance with a moving cursor and a note that carries a graphic
DataCursor ==
    PerfDecl("data", <<Tempo(Num(4), 120, Quarter), Tempo(Num(0), 60, Quarter)>>,
             <<RegionDecl(0, 2, "m1", "left", "right")>>,
             <<EventDecl(0, 440, 1, 64, <<"n1">>)>>)

\* a data performance whose events are declared out of order
DataNotes ==
    PerfDecl("data", <<Tempo(Num(0), 60, Quarter), Tempo(Num(4), 120, Quarter)>>,
             <<>>,
             <<EventDecl(1, 220, 1, 127, <<>>), EventDecl(0, 440, 1, 64, <<"n1", "n2">>)>>)

\* a data performance with two overlapping regions and no tempo
DataRegions ==
    PerfDecl("data", <<>>,
             <<RegionDecl(0, 2, "m1", "", ""), RegionDecl(1, 3, "m2", "", "")>>,
             <<>>)

\* an audio performance with one highlighted region
AudioRegion ==
    PerfDecl("audio", <<Tempo(NoNumber, 60, Half)>>,
             <<RegionDecl(0, 1, "v1", "", "")>>, <<>>)

\* performances whose second tempo cannot be parsed
DataBadBase ==
    PerfDecl("data", <<Tempo(Num(0), 60, Quarter), Tempo(Num(2), 60, Sixth)>>,
             <<RegionDecl(0, 2, "m1", "", "")>>, <<EventDecl(0, 440, 1, 64, <<>>)>>)

AudioBadToken ==
    PerfDecl("audio", <<Tempo(Num(0), 60, NoOperator)>>, <<>>, <<>>)

\* a data performance whose region ends before it starts, and whose note with a
\* graphic has no length
DataBackwards ==
    PerfDecl("data", <<>>,
             <<RegionDecl(2, 1, "m1", "", "")>>,
             <<EventDecl(0, 440, 0, 64, <<"n1">>)>>)

File(views, ps) == [views |-> views, perfs |-> ps]

Files ==
    {File(<<TRUE>>, <<DataCursor>>),
     File(<<FALSE>>, <<AudioRegion>>),
     File(<<TRUE>>, <<DataNotes, DataRegions>>),
     File(<<TRUE>>, <<AudioRegion, DataCursor>>),
     File(<<>>, <<DataRegions>>),
     File(<<FALSE>>, <<DataBadBase>>),
     File(<<TRUE>>, <<DataRegions, AudioBadToken>>),
     File(<<>>, <<DataBackwards>>)}

(***************************************************************************)
(* The specification: the page loads documents one after the other and     *)
(* plays and stops the Performances of the document it shows.              *)
(***************************************************************************)
Init ==
    /\ loads = <<>>
    /\ performances = <<>>
    /\ uiPerformances = <<>>
    /\ ready = FALSE
    /\ perfs = <<>>
    /\ decos = <<>>
    /\ transport = NewTransport
    /\ synthLog = <<>>
    /\ lastOp = Op("init", 0)

Next ==
    \/ \E file \in Files : Load(file)
    \/ \E l \in DOMAIN loads : XhrSuccess(l)
    \/ \E l \in DOMAIN loads : XhrError(l)
    \/ \E l \in DOMAIN loads : \E i \in DOMAIN loads[l].promises : AssetResolve(l, i)
    \/ \E l \in DOMAIN loads : \E i \in DOMAIN loads[l].promises : AssetReject(l, i)
    \/ \E p \in DOMAIN perfs : PrepareCall(p)
    \/ \E p \in DOMAIN perfs : Play(p)
    \/ \E p \in DOMAIN perfs : Stop(p)
    \/ TransportStarts
    \/ \E i \in DOMAIN transport.schedule : Fire(i)
    \/ \E p \in DOMAIN perfs : SourceEnds(p)
    \/ \E d \in DOMAIN decos : Tick(d)

Spec == Init /\ [][Next]_vars

(***************************************************************************)
(* Tempo resolution on its own: a document with one data performance that  *)
(* declares up to MaxTempos tempos, in every order, is loaded (parseTempos *)
(* and addTempo build the tempo list, prepare() resolves it), and          *)
(* prepare() may be called again.                                          *)
(***************************************************************************)
MaxTempos == 3

TempoDecls ==
    {Tempo(Num(4), 120, Quarter),           \* 2 seconds per whole note
     Tempo(Num(0), 60, Quarter),            \* 4
     Tempo(NoNumber, 120, Half),            \* start missing: 0; 1
     Tempo(Num(2), 60, DottedQuarter),      \* 8/3
     Tempo(Num(1), 60, Sixth)}              \* no beat value

RECURSIVE SeqsUpTo(_, _)
SeqsUpTo(S, n) ==
    IF n = 0 THEN {<<>>}
    ELSE LET shorter == SeqsUpTo(S, n - 1)
         IN  shorter \cup {Append(q, x) : q \in shorter, x \in S}

TempoFiles ==
    {File(<<>>, <<PerfDecl("data", ts, <<>>, <<>>)>>) : ts \in SeqsUpTo(TempoDecls, MaxTempos)}

InitTempo ==
    /\ \E file \in TempoFiles : loads = <<NewLoad(file)>>
    /\ performances = <<>>
    /\ uiPerformances = <<>>
    /\ ready = FALSE
    /\ perfs = <<>>
    /\ decos = <<>>
    /\ transport = NewTransport
    /\ synthLog = <<>>
    /\ lastOp = Op("load", 0)

NextTempo ==
    \/ \E l \in DOMAIN loads : XhrSuccess(l)
    \/ \E p \in DOMAIN perfs : PrepareCall(p)

SpecTempo == InitTempo /\ [][NextTempo]_vars

(***************************************************************************)
(* The decorations on their own: a document with one data performance is   *)
(* loaded and prepared, and then the bodies of its show and hide callbacks *)
(* are run in any order, as a caller of show() and hide() may, while the   *)
(* polling loops tick and the Transport's clock reads any of a few times.  *)
(***************************************************************************)
MaxClock == 3      \* the clock reads 0, 4, .. 4 * MaxClock seconds

\* a data performance (4 seconds to the whole note) with a cursor that starts
\* after the beginning, and a region
DataDeco ==
    PerfDecl("data", <<Tempo(Num(0), 60, Quarter)>>,
             <<RegionDecl(1, 2, "m2", "bottom", "top"), RegionDecl(0, 2, "m1", "", "")>>,
             <<>>)

DecoFiles == {File(<<>>, <<DataCursor>>), File(<<>>, <<DataDeco>>)}

InitDeco ==
    /\ \E file \in DecoFiles : loads = <<NewLoad(file)>>
    /\ performances = <<>>
    /\ uiPerformances = <<>>
    /\ ready = FALSE
    /\ perfs = <<>>
    /\ decos = <<>>
    /\ transport = NewTransport
    /\ synthLog = <<>>
    /\ lastOp = Op("load", 0)

\* the body of the callback at position i of the timeline is run
Invoke(i) ==
    /\ SetWorld(RunCallback(TheWorld, transport.schedule[i]))
    /\ lastOp' = [op |-> transport.schedule[i].type,
                  perf |-> transport.schedule[i].perf,
                  was |-> perfs[transport.schedule[i].perf].activeRegions,
                  targets |-> Range(transport.schedule[i].targets),
                  before |-> decos]
    /\ UNCHANGED <<loads, performances, uiPerformances, ready, synthLog>>

\* Tone.Transport.seconds reads s
Elapse(s) ==
    /\ transport.seconds # s
    /\ transport' = [transport EXCEPT !.seconds = s]
    /\ lastOp' = Op("elapse", 0)
    /\ UNCHANGED <<loads, performances, uiPerformances, ready, perfs, decos, synthLog>>

NextDeco ==
    \/ \E l \in DOMAIN loads : XhrSuccess(l)
    \/ \E i \in DOMAIN transport.schedule : Invoke(i)
    \/ \E d \in DOMAIN decos : Tick(d)
    \/ \E k \in 0..MaxClock : Elapse(Num(4 * k))
    \/ \E p \in DOMAIN perfs : Stop(p)

SpecDeco == InitDeco /\ [][NextDeco]_vars

(***************************************************************************)
(* The parsers on their own: MnxUtils.parseNoteValueQuantity,              *)
(* MnxUtils.parseRational and MnxUtils.isPowerOf2 are called with tokens   *)
(* put together from a multiplier or numerator, an operator, a base value  *)
(* or denominator, dots and a tail; lastOp keeps the call and its result.  *)
(***************************************************************************)
MaxDots == 2       \* augmentation dots of a token

\* the decimal digits of a number, as an attribute value holds them
RECURSIVE Decimal(_)
Decimal(n) ==
    IF n < 10 THEN <<Digits[n + 1]>> ELSE Append(Decimal(n \div 10), Digits[(n % 10) + 1])

\* the digits of n after the padding; an absent number (n = -1) has none
DigitsOf(n, pad) == IF n < 0 THEN <<>> ELSE pad \o Decimal(n)

\* numbers of a token: none, and values that are and are not powers of two
TokenNumbers == {-1, 0, 1, 2, 3, 4, 6, 8, 12, 16, 1024, 536870912}

InitParse ==
    /\ loads = <<>>
    /\ performances = <<>>
    /\ uiPerformances = <<>>
    /\ ready = FALSE
    /\ perfs = <<>>
    /\ decos = <<>>
    /\ transport = NewTransport
    /\ synthLog = <<>>
    /\ lastOp = Op("init", 0)

\* the call, the parts its argument was put together from (a sign, a first
\* number, an operator, a second number, dots and a tail) and its result
Called(op, parts, str, result) ==
    /\ lastOp' = [op |-> op, perf |-> 0, was |-> {}, sign |-> parts[1], first |-> parts[2],
                  operator |-> parts[3], second |-> parts[4], dots |-> parts[5],
                  tail |-> parts[6], str |-> str, result |-> result]
    /\ UNCHANGED <<loads, performances, uiPerformances, ready, perfs, decos, transport,
                   synthLog>>

\* MnxUtils.parseNoteValueQuantity(str); the functions keep no state, so a
\* behaviour makes one call
CallParseNoteValue(parts, str) ==
    /\ lastOp.op = "init"
    /\ Called("parseNoteValueQuantity", parts, str, parseNoteValueQuantity(str))

\* MnxUtils.parseRational(str)
CallParseRational(parts, str) ==
    /\ lastOp.op = "init"
    /\ Called("parseRational", parts, str, parseRational(str))

\* MnxUtils.isPowerOf2(number)
CallIsPowerOf2(number) ==
    /\ lastOp.op = "init"
    /\ Called("isPowerOf2", <<<<>>, -1, <<>>, number, 0, <<>>>>, <<>>, isPowerOf2(number))

NextParse ==
    \/ \E m \in {-1, 0, 1, 3, 12}, o \in {<<"*">>, <<"/">>, <<>>, <<"x">>},
          v \in TokenNumbers, pad \in {<<>>, <<"0">>}, n \in 0..MaxDots,
          tail \in {<<>>, <<" ">>} :
           CallParseNoteValue(
               <<<<>>, m, o, v, n, tail>>,
               DigitsOf(m, <<>>) \o o \o DigitsOf(v, pad) \o [i \in 1..n |-> "d"] \o tail)
    \/ \E sign \in {<<>>, <<"-">>, <<"+">>}, m \in {-1, 0, 1, 12},
          o \in {<<"/">>, <<>>, <<"*">>}, v \in {-1, 0, 1, 2, 10}, pad \in {<<>>, <<"0">>},
          tail \in {<<>>, <<"d">>} :
           CallParseRational(
               <<sign, m, o, v, 0, tail>>,
               sign \o DigitsOf(m, <<>>) \o o \o DigitsOf(v, pad) \o tail)
    \/ \E number \in TokenNumbers \ {-1} : CallIsPowerOf2(number)

SpecParse == InitParse /\ [][NextParse]_vars

(***************************************************************************)
(* Overlapping loads: the page starts a load() while earlier ones are still *)
(* waiting for their document or their assets (a second click on an        *)
(* example link), and the requests complete in any order.                  *)
(***************************************************************************)
MaxOverlap == 2    \* load() calls in one behaviour of SpecOverlap

OverlapFiles ==
    {File(<<TRUE>>, <<DataCursor>>),
     File(<<FALSE>>, <<AudioRegion>>),
     File(<<TRUE>>, <<AudioRegion, DataCursor>>),
     File(<<>>, <<DataRegions>>)}

\* loadFile(src) of the page, whatever the earlier loads are waiting for
LoadDuring(file) ==
    /\ Len(loads) < MaxOverlap
    /\ loads' = Append(loads, NewLoad(file))
    /\ ready' = FALSE
    /\ lastOp' = Op("load", 0)
    /\ UNCHANGED <<performances, uiPerformances, perfs, decos, transport, synthLog>>

NextOverlap ==
    \/ \E file \in OverlapFiles : LoadDuring(file)
    \/ \E l \in DOMAIN loads : XhrSuccess(l)
    \/ \E l \in DOMAIN loads : XhrError(l)
    \/ \E l \in DOMAIN loads : \E i \in DOMAIN loads[l].promises : AssetResolve(l, i)
    \/ \E l \in DOMAIN loads : \E i \in DOMAIN loads[l].promises : AssetReject(l, i)

SpecOverlap == Init /\ [][NextOverlap]_vars

(***************************************************************************)
(* Properties.                                                             *)
(***************************************************************************)
\* the timeline entries that are closures of Performance p
CallbacksOf(t, p) == {i \in DOMAIN t.schedule : t.schedule[i].perf = p}

CallbackSet(t, p) == {t.schedule[i] : i \in CallbacksOf(t, p)}

\* the decorations created by Performance p
DecorationsOf(p) == {d \in DOMAIN decos : decos[d].performance = p}

\* the declaration Performance p was built from
DeclOf(p) ==
    LET ld == loads[perfs[p].load]
        k == CHOOSE i \in DOMAIN ld.created : ld.created[i] = p
    IN  ParseOrder(ld.file)[k]

\* the number of callbacks one scheduling pass of p registers
EventsWithGraphics(p) ==
    {k \in DOMAIN perfs[p].events :
        perfs[p].events[k].view /\ perfs[p].events[k].graphics # <<>>}

RegisteredByPrepare(p) ==
    2 * Len(perfs[p].regions)
    + (IF perfs[p].kind = "audio" THEN 1
       ELSE Len(perfs[p].events) + 2 * Cardinality(EventsWithGraphics(p)))

\* C1: however often prepare() is called on a Performance, its scheduling work
\* runs at most once: tempo resolution is done once, a prepare() call on a
\* Performance that is already scheduled leaves the callbacks it has on the
\* Transport (and everything else) as they were, and no callback is on the
\* timeline twice.
C1_PrepareOnce ==
    [][/\ \A p \in DOMAIN perfs' : perfs'[p].passes <= 1
       /\ \A i, j \in DOMAIN transport'.schedule :
              transport'.schedule[i] = transport'.schedule[j] => i = j
       /\ (lastOp'.op = "prepare" /\ perfs[lastOp'.perf].scheduled) =>
              /\ CallbackSet(transport', lastOp'.perf) = CallbackSet(transport, lastOp'.perf)
              /\ transport' = transport
              /\ perfs' = perfs
              /\ decos' = decos]_vars

C1_Witness ==
    /\ lastOp.op = "prepare"
    /\ perfs[lastOp.perf].passes = 1
    /\ CallbacksOf(transport, lastOp.perf) # {}

\* C2: after stop() on a Performance, every decoration that was in its active
\* set just before the call is hidden and the active set is empty.
C2_StopHidesActive ==
    lastOp.op = "stop" =>
        /\ \A d \in lastOp.was : ~decos[d].highlighted /\ ~decos[d].attached
        /\ perfs[lastOp.perf].activeRegions = {}

C2_Witness ==
    /\ lastOp.op = "stop"
    /\ Cardinality(lastOp.was) = 2

\* C3: right after play() on a prepared Performance, in whatever state it was,
\* its active set is empty, none of its decorations is highlighted, the
\* Transport's elapsed time is 0 and the Transport is set to start.
C3_PlayRestarts ==
    (lastOp.op = "play" /\ perfs[lastOp.perf].scheduled) =>
        /\ perfs[lastOp.perf].activeRegions = {}
        /\ \A d \in DecorationsOf(lastOp.perf) : ~decos[d].highlighted
        /\ transport.seconds = Num(0)
        /\ transport.state = "starting"

C3_Witness ==
    /\ lastOp.op = "play"
    /\ perfs[lastOp.perf].scheduled
    /\ lastOp.was # {}

HasBadBeat(file) ==
    \E k \in DOMAIN file.perfs : \E j \in DOMAIN file.perfs[k].tempos :
        parseNoteValueQuantity(file.perfs[k].tempos[j].beat) = Undefined

\* C5 (as claimed): a load whose document carries an unparsable beat token ends
\* with the promise of load() rejected: once its request has answered and no
\* asset promise is outstanding, the promise is not pending and not resolved.
C5_BadBeatRejects ==
    \A l \in DOMAIN loads :
        (/\ HasBadBeat(loads[l].file)
         /\ loads[l].xhr # "pending"
         /\ \A i \in DOMAIN loads[l].promises : loads[l].promises[i] # "pending")
        => loads[l].promise = "rejected"

\* C6 (as claimed): preparing a Performance cancels nothing of the others: every
\* prepared Performance still has on the Transport every callback its
\* prepare() registered.
C6_NoGlobalCancel ==
    \A p \in DOMAIN perfs :
        perfs[p].scheduled =>
            Cardinality(CallbacksOf(transport, p)) = RegisteredByPrepare(p)

\* the tempo entries of least start among a list of entries
Earliest(tempos) ==
    {i \in DOMAIN tempos : \A j \in DOMAIN tempos : RLe(tempos[i].start, tempos[j].start)}

\* the tempo entries addTempo was given for Performance p, in the order given
AddedTempos(p) == parseTempos(NewPerformance(perfs[p].kind, perfs[p].load), DeclOf(p).tempos).perf.tempos

\* C7: after prepare(), the timescale is the unitSeconds of a tempo entry of
\* least start, in whatever order the entries were added; with no entry
\* added it is 1.
C7_EarliestTempo ==
    \A p \in DOMAIN perfs :
        perfs[p].scheduled =>
            IF AddedTempos(p) = <<>>
            THEN perfs[p].timescale = Num(1)
            ELSE \E i \in Earliest(AddedTempos(p)) :
                     perfs[p].timescale = AddedTempos(p)[i].unitSeconds

\* a prepared Performance whose first declared tempo is not its earliest
C7_Witness ==
    \E p \in DOMAIN perfs :
        /\ perfs[p].scheduled
        /\ Len(AddedTempos(p)) >= 2
        /\ 1 \notin Earliest(AddedTempos(p))
        /\ perfs[p].timescale # AddedTempos(p)[1].unitSeconds

\* the two declarations of the tempo example, in either order
ExampleTempos ==
    {<<Tempo(Num(4), 120, Quarter), Tempo(Num(0), 60, Quarter)>>,
     <<Tempo(Num(0), 60, Quarter), Tempo(Num(4), 120, Quarter)>>}

\* C8 (as claimed): the example resolves to a timescale of 1.0
C8_ExampleIsOne ==
    \A p \in DOMAIN perfs :
        (perfs[p].scheduled /\ DeclOf(p).tempos \in ExampleTempos) =>
            perfs[p].timescale = Num(1)

\* C8 (amended): the example resolves to a timescale of 4.0 (60 quarter notes
\* a minute: (60 / 60) / (1/4) seconds for a whole note), in either order
C8_ExampleIsFour ==
    \A p \in DOMAIN perfs :
        (perfs[p].scheduled /\ DeclOf(p).tempos \in ExampleTempos) =>
            perfs[p].timescale = Num(4)

C8_Witness ==
    \E p \in DOMAIN perfs :
        /\ perfs[p].scheduled
        /\ DeclOf(p).tempos = <<Tempo(Num(4), 120, Quarter), Tempo(Num(0), 60, Quarter)>>
        /\ perfs[p].timescale = Num(4)

\* C9 (as claimed): for every event of a prepared DataPerformance one trigger
\* callback stands on the Transport at start * timescale, and with it, when
\* the event carries graphics, a show callback at the same time and a hide
\* callback at (start + duration) * timescale for its graphic decorations; and
\* in a play-through that has passed the event's time the synthesizer was
\* triggered exactly once for it, with the event's frequency, duration *
\* timescale seconds and velocity dynamics / 127.
C9_EventScheduled(p, k) ==
    LET pe == perfs[p].events[k]
        ts == perfs[p].timescale
        at(type, time) ==
            {i \in CallbacksOf(transport, p) :
                /\ transport.schedule[i].type = type
                /\ transport.schedule[i].ev = k
                /\ transport.schedule[i].time = time}
    IN  /\ Cardinality(at("trigger", RMul(pe.start, ts))) = 1
        /\ (pe.view /\ pe.graphics # <<>>) =>
               /\ Len(pe.viewGraphics) = Len(pe.graphics)
               /\ \E i \in at("showGraphics", RMul(pe.start, ts)) :
                      transport.schedule[i].targets = pe.viewGraphics
               /\ \E i \in at("hideGraphics", RMul(RAdd(pe.start, pe.duration), ts)) :
                      transport.schedule[i].targets = pe.viewGraphics

C9_EventPlayed(p, k) ==
    LET pe == perfs[p].events[k]
        ts == perfs[p].timescale
        heard == {n \in DOMAIN synthLog : synthLog[n].perf = p /\ synthLog[n].ev = k}
    IN  (transport.state = "started" /\ RLt(RMul(pe.start, ts), transport.seconds)) =>
            /\ Cardinality(heard) = 1
            /\ \A n \in heard :
                   /\ synthLog[n].time = RMul(pe.start, ts)
                   /\ synthLog[n].frequency = pe.frequency
                   /\ synthLog[n].duration = RMul(pe.duration, ts)
                   /\ synthLog[n].velocity = Frac(pe.dynamics, 127)

C9_EveryEventPlays ==
    \A p \in DOMAIN perfs :
        (perfs[p].scheduled /\ perfs[p].kind = "data") =>
            \A k \in DOMAIN perfs[p].events :
                C9_EventScheduled(p, k) /\ C9_EventPlayed(p, k)

\* C10 (as claimed): for every region of a prepared Performance exactly one
\* show callback stands on the Transport at start * timescale and exactly one
\* hide callback at end * timescale, both for the same decoration, a Cursor
\* when both cursor edges were supplied and a Region otherwise.
C10_RegionScheduled(p, k) ==
    LET pr == perfs[p].regions[k]
        ts == perfs[p].timescale
        mine(d) == /\ decos[d].performance = p
                   /\ decos[d].elementId = pr.region
                   /\ decos[d].start = pr.start
                   /\ decos[d].end = pr.end
                   /\ decos[d].kind = IF pr.cursorStart # "" /\ pr.cursorEnd # ""
                                      THEN "cursor" ELSE "region"
        at(type, time, d) ==
            {i \in CallbacksOf(transport, p) :
                /\ transport.schedule[i].type = type
                /\ transport.schedule[i].time = time
                /\ transport.schedule[i].targets = <<d>>}
    IN  \E d \in DOMAIN decos :
            /\ mine(d)
            /\ Cardinality(at("showRegion", RMul(pr.start, ts), d)) = 1
            /\ Cardinality(at("hideRegion", RMul(pr.end, ts), d)) = 1

C10_EveryRegionScheduled ==
    \A p \in DOMAIN perfs :
        perfs[p].scheduled =>
            \A k \in DOMAIN perfs[p].regions : C10_RegionScheduled(p, k)

\* the Performance whose prepare() ran last: the only one whose callbacks the
\* Tone.Transport.cancel(0) of a later prepare() has not removed
LastPrepared(p) ==
    /\ perfs[p].scheduled
    /\ \A q \in DOMAIN perfs : (perfs[q].scheduled /\ perfs[q].load = perfs[p].load) => q <= p
    /\ \A q \in DOMAIN perfs : perfs[q].scheduled => perfs[q].load <= perfs[p].load

\* what holds of the code instead of C6, C9 and C10: the three statements for
\* the Performance prepared last
LastPreparedKeepsSchedule ==
    \A p \in DOMAIN perfs :
        LastPrepared(p) =>
            /\ Cardinality(CallbacksOf(transport, p)) = RegisteredByPrepare(p)
            /\ \A k \in DOMAIN perfs[p].events :
                   C9_EventScheduled(p, k) /\ C9_EventPlayed(p, k)
            /\ \A k \in DOMAIN perfs[p].regions : C10_RegionScheduled(p, k)

\* C11 (as claimed): every decoration is built with its hide time after its
\* show time (a region with end <= start, or a note with graphics and
\* duration <= 0, is rejected instead of being scheduled), so that in a
\* play-through no decoration is shown once the Transport has passed the time
\* its hide was scheduled at.
C11_ShowBeforeHide ==
    \A d \in DOMAIN decos :
        /\ RLt(decos[d].start, decos[d].end)
        /\ (decos[d].highlighted /\ transport.state = "started") =>
               RLe(transport.seconds,
                   RMul(decos[d].end, perfs[decos[d].performance].timescale))

\* C12: show() and hide() are idempotent for every decoration, in whatever
\* state it is: a second show() leaves what the first left, with the element
\* built and attached (for a cursor its line coordinates and its polling loop
\* as the first left them), and a second hide() leaves what the first left,
\* with no element attached, also for a decoration that was never shown.
C12_ShowHideIdempotent ==
    \A d \in DOMAIN decos :
        /\ Show(Show(decos[d])) = Show(decos[d])
        /\ Show(decos[d]).created /\ Show(decos[d]).attached /\ Show(decos[d]).highlighted
        /\ Hide(Hide(decos[d])) = Hide(decos[d])
        /\ ~Hide(decos[d]).attached /\ ~Hide(decos[d]).highlighted
        /\ decos[d].attached = decos[d].highlighted

\* show() has just run on a cursor that was already shown
C12_Witness ==
    /\ lastOp.op = "showRegion"
    /\ \E d \in lastOp.targets :
           /\ decos[d].kind = "cursor"
           /\ lastOp.before[d].highlighted
           /\ lastOp.before[d].line # decos[d].line

LineProps == {"x1", "y1", "x2", "y2"}

\* the time in beats a polling tick computes from the clock
BeatsRead(d) == RDiv(transport.seconds, perfs[decos[d].performance].timescale)

C16_OnePollingLoop ==
    /\ \A d \in DOMAIN decos :
           /\ decos[d].loops = (IF decos[d].interval THEN 1 ELSE 0)
           /\ decos[d].kind # "cursor" => decos[d].loops = 0
           /\ ~decos[d].highlighted =>
                  CursorTick(decos[d], transport.seconds,
                             perfs[decos[d].performance].timescale).line = decos[d].line
    /\ lastOp.op \in {"hideRegion", "hideGraphics"} =>
           \A d \in lastOp.targets : decos[d].loops = 0
    /\ lastOp.op = "stop" => \A d \in lastOp.was : decos[d].loops = 0
    /\ lastOp.op = "tick" =>
           \A d \in lastOp.targets :
               ~lastOp.before[d].highlighted => decos[d].line = lastOp.before[d].line

\* stop() has just hidden a cursor whose polling loop had moved it
C16_Witness ==
    /\ lastOp.op = "stop"
    /\ \E d \in lastOp.was :
           /\ decos[d].kind = "cursor"
           /\ decos[d].line # Line(Num(0), Num(0), Num(0), Num(0))
           /\ decos[d].loops = 0

\* n is 2^k for an integer k >= 0
IsTwoPower(n) == \E k \in 0..30 : n = Pow2(k)

\* the token of the last call is {m}{op}{v}{dots}: an optional multiplier, one
\* of the two operators, a base value, dots and nothing else
WellFormedToken ==
    /\ lastOp.op = "parseNoteValueQuantity"
    /\ lastOp.operator \in {<<"*">>, <<"/">>}
    /\ lastOp.second >= 0
    /\ lastOp.tail = <<>>

\* m * (v or 1/v) * (2^(n+1) - 1) / 2^n
RhythmicValue(m, o, v, n) ==
    Frac((IF m < 0 THEN 1 ELSE m) * (IF o = <<"*">> THEN v ELSE 1) * (Pow2(n + 1) - 1),
         (IF o = <<"/">> THEN v ELSE 1) * Pow2(n))

\* C13 (as claimed): for every token {m}{op}{v}{dots} whose base value v is a
\* power of two, parseNoteValueQuantity returns a Rational, and its value is
\* the rhythmic value m * (v or 1/v) * (2^(n+1) - 1) / 2^n.
C13_RhythmicValue ==
    (WellFormedToken /\ IsTwoPower(lastOp.second)) =>
        /\ lastOp.result # Undefined
        /\ toNumber(lastOp.result)
             = RhythmicValue(lastOp.first, lastOp.operator, lastOp.second, lastOp.dots)

\* C14 (as claimed): isPowerOf2(n) is true exactly when n is 2^k for an integer
\* k >= 0, and parseNoteValueQuantity returns nothing for a token whose base
\* value is no such power or that does not match the pattern.
C14_PowerOfTwoOnly ==
    /\ lastOp.op = "isPowerOf2" => (lastOp.result <=> IsTwoPower(lastOp.second))
    /\ (/\ lastOp.op = "parseNoteValueQuantity"
        /\ ~(WellFormedToken /\ IsTwoPower(lastOp.second)))
       => lastOp.result = Undefined

\* C18 (as claimed): a Rational returned by parseRational or by
\* parseNoteValueQuantity has a denominator greater than 0, and parseRational
\* returns nothing for a string whose denominator is zero.
C18_PositiveDenominator ==
    /\ (lastOp.op \in {"parseRational", "parseNoteValueQuantity"}
        /\ lastOp.result # Undefined)
       => lastOp.result.denominator > 0
    /\ (lastOp.op = "parseRational" /\ lastOp.second = 0)
       => lastOp.result = Undefined

\* the callbacks on the timeline that start the buffer of Performance p
AudioStarts(p) ==
    {i \in DOMAIN transport.schedule :
        /\ transport.schedule[i].perf = p
        /\ transport.schedule[i].type = "audioStart"}

\* the buffer sources of Performance p that are sounding
Sounding(p) == (IF perfs[p].sourceLive THEN 1 ELSE 0) + perfs[p].orphans

\* C17 (as claimed): the prepare() of an AudioPerformance registers exactly one
\* callback that starts the buffer, at time 0; at most one buffer source
\* sounds at a time; the source handle is set only while the source it refers
\* to is sounding; after stop() nothing sounds and the handle is null.
C17_OneSourceAtATime ==
    \A p \in DOMAIN perfs :
        perfs[p].kind = "audio" =>
            /\ LastPrepared(p) =>
                   /\ Cardinality(AudioStarts(p)) = 1
                   /\ \A i \in AudioStarts(p) : transport.schedule[i].time = Num(0)
            /\ Sounding(p) <= 1
            /\ perfs[p].source => perfs[p].sourceLive
            /\ (lastOp.op = "stop" /\ lastOp.perf = p) =>
                   ~perfs[p].source /\ Sounding(p) = 0

\* what C19 says is frozen: the tempo, region and event lists (contents and
\* order), the timescale and the scheduled flag of a Performance
Frame(perf) == <<perf.tempos, perf.regions, perf.events, perf.timescale, perf.scheduled>>

C20_CreatedOnFirstShow ==
    /\ \A d \in DOMAIN decos : decos[d].created
    /\ \A p \in DOMAIN perfs :
           \A d \in perfs[p].activeRegions : decos[d].performance = p

\* C21: after every completed operation, a decoration is in the active set of
\* its Performance if and only if its highlighted flag is true.
C21_ActiveIffHighlighted ==
    \A d \in DOMAIN decos :
        decos[d].highlighted <=> d \in perfs[decos[d].performance].activeRegions

\* the only Performance of a load has had a callback fired, and has one
\* decoration shown and in its active set and another hidden and out of it
C21_Witness ==
    /\ lastOp.op = "fire"
    /\ \E l \in DOMAIN loads : loads[l].created = <<lastOp.perf>>
    /\ \E d, e \in DOMAIN decos :
           /\ decos[d].performance = lastOp.perf
           /\ decos[e].performance = lastOp.perf
           /\ decos[d].highlighted /\ d \in perfs[lastOp.perf].activeRegions
           /\ decos[e].created /\ ~decos[e].highlighted
           /\ e \notin perfs[lastOp.perf].activeRegions

\* C22 (as claimed): right after stop() of the Performance played last, in a
\* load that declared two or more Performances, no decoration of any
\* Performance of the load is highlighted, no cursor polling loop runs, and
\* no buffer source started in that play-through is sounding.
C22_StopOfLastPlayed ==
    \A p \in DOMAIN perfs :
        (/\ lastOp.op = "stop"
         /\ lastOp.perf = p
         /\ perfs[p].latest
         /\ Len(loads[perfs[p].load].created) >= 2) =>
            \A q \in Range(loads[perfs[p].load].created) :
                /\ \A d \in DecorationsOf(q) : ~decos[d].highlighted /\ decos[d].loops = 0
                /\ ~(perfs[q].sourceLive /\ perfs[q].sourceFresh)

\* C24 (as claimed): with overlapping loads, a Performance that has been
\* prepared belongs to a load whose asset promises have all resolved.
C24_PreparedAfterOwnAssets ==
    \A p \in DOMAIN perfs :
        perfs[p].scheduled =>
            /\ loads[perfs[p].load].bigPromise = "resolved"
            /\ AllResolved(loads[perfs[p].load])

\* C23 (as claimed): once the promise load() returned has resolved, every
\* Performance the loaded document declared has completed prepare(): it has
\* run its scheduling pass, which registers its callbacks, and is scheduled.
C23_ResolvedMeansPrepared ==
    \A l \in DOMAIN loads :
        loads[l].promise = "resolved" =>
            \A p \in Range(loads[l].created) :
                perfs[p].scheduled /\ perfs[p].passes = 1
====
